---- MODULE Spec2Model ----
(***************************************************************************)
(* Benchmark scripts of the deopt repository as one state machine.         *)
(*                                                                         *)
(* Every example script is a flat, top-level sequence of statements: a     *)
(* warm-up loop, a timer start (console.time or performance.mark), a       *)
(* measured loop, a timer stop (console.timeEnd or performance.mark plus   *)
(* performance.measure).  A script is modelled as the sequence of its      *)
(* timing-relevant statements, executed in program order by a single       *)
(* thread; one action per statement kind.  Loop trip counts are scaled     *)
(* down (the source runs 10^3 .. 10^9 iterations).                         *)
(*                                                                         *)
(* The trace launcher (trace.ts) is a second state machine over its own    *)
(* variables: the top-level code runs in one step, then the events of the  *)
(* spawned child reach their handlers (TraceSpec).                         *)
(*                                                                         *)
(* The example sections whose loops compute on data (receiver classes,     *)
(* object shapes, array sums, removed properties, == against ===, try /    *)
(* catch) are a third state machine: the data and functions are operators  *)
(* over JavaScript values, one action per loop body (ExampleSpec).         *)
(***************************************************************************)
EXTENDS Integers, Sequences, FiniteSets, TLC

(* ---------------------------------------------------------------------- *)
(* Bounds: scaled-down loop trip counts and the clock range.               *)
(* ---------------------------------------------------------------------- *)

\* pres-demo.ts:22  const WARMUP = 100_000 (scaled)
WARMUP == 2

\* pres-demo.ts:21  const ITERATIONS = 5_000_000 (scaled)
ITERATIONS == 6

\* the shorter literal trip count of a benchmark block (warm-up loops of
\* optimization.ts: 1000000, 1000, 100000), scaled
Short == 2

\* the longer literal trip count of a benchmark block (measured loops of
\* optimization.ts, both loops of demo.ts, inline-cache.ts arrays, the
\* measured loops of the data examples), scaled
Long == 3

\* largest value of the millisecond clock
MaxClock == 3

\* largest exit code a traced example ends with
MaxExitCode == 2

\* most lines a traced example writes to the inherited standard output
MaxChildLines == 2

\* length of the animal arrays (pres-demo.ts:227,248,277: 1000), scaled
AnimalCount == 6

\* length of the objects array (monomorphic.ts:79: 100), scaled
ObjectCount == 5

\* trip counts in the millions (monomorphic.ts:30,59,89: 1000000,
\* part_005:315,324: 5000000), scaled
Million == 5

\* number of products (pres-demo.ts:599: 1000, part_005:255: 10000), scaled
ProductCount == 3

\* length of testValues (pres-demo.ts:319: 1000), scaled
TestValuesLength == 4

\* length of mixedArray (part_005:305: 100000), scaled
MixedArrayLength == 5

\* largest argument n of withTryCatch / withoutTryCatch (the source passes
\* 100)
MaxN == 4

(* ---------------------------------------------------------------------- *)
(* Program constants                                                       *)
(* ---------------------------------------------------------------------- *)

\* part_001:110  new Array(5), and the five elements of packed
ArrayLength == 5

(* ---------------------------------------------------------------------- *)
(* Statements                                                              *)
(* ---------------------------------------------------------------------- *)

\* for (let i = 0; i < n; i++) { fn(...) } ; phase is the role the source
\* gives the loop in its comment ("Warm-up" / "Measure")
Loop(fn, n, phase) ==
  [op |-> "loop", name |-> fn, n |-> n, phase |-> phase, from |-> "", to |-> ""]

\* a single call outside any loop
Call(fn, phase) ==
  [op |-> "call", name |-> fn, n |-> 1, phase |-> phase, from |-> "", to |-> ""]

\* console.time(label)
Time(label) ==
  [op |-> "time", name |-> label, n |-> 0, phase |-> "", from |-> "", to |-> ""]

\* console.timeEnd(label)
TimeEnd(label) ==
  [op |-> "timeEnd", name |-> label, n |-> 0, phase |-> "", from |-> "", to |-> ""]

\* performance.mark(name)
Mark(m) ==
  [op |-> "mark", name |-> m, n |-> 0, phase |-> "", from |-> "", to |-> ""]

\* performance.measure(name, startMark, endMark)
Measure(m, s, e) ==
  [op |-> "measure", name |-> m, n |-> 0, phase |-> "", from |-> s, to |-> e]

\* console.log(text); of is "" for a fixed text, or the name of the measure
\* whose duration the line shows
LogLine(text, of) ==
  [op |-> "print", name |-> text, n |-> 0, phase |-> "", from |-> of, to |-> ""]

(* ---------------------------------------------------------------------- *)
(* The scripts                                                             *)
(* ---------------------------------------------------------------------- *)

\* variant of PresDemoScript that starts each timer before the warm-up loop
PresDemoScriptTimerFirst ==
  << LogLine("Testing STABLE function", ""),
     Time("Stable function"),
     Loop("addStable", WARMUP, "warmup"),
     Loop("addStable", ITERATIONS, "measure"),
     TimeEnd("Stable function"),
     LogLine("Testing UNSTABLE function", ""),
     Time("Unstable function"),
     Loop("addUnstable", WARMUP, "warmup"),
     Loop("addUnstable", ITERATIONS, "measure"),
     TimeEnd("Unstable function"),
     LogLine("Results: stable, unstable", "") >>

\* variant of PresDemoScript that stops the first timer only after the
\* warm-up of the second function
PresDemoScriptInterleaved ==
  << LogLine("Testing STABLE function", ""),
     Loop("addStable", WARMUP, "warmup"),
     Time("Stable function"),
     Loop("addStable", ITERATIONS, "measure"),
     LogLine("Testing UNSTABLE function", ""),
     Loop("addUnstable", WARMUP, "warmup"),
     TimeEnd("Stable function"),
     Time("Unstable function"),
     Loop("addUnstable", ITERATIONS, "measure"),
     TimeEnd("Unstable function"),
     LogLine("Results: stable, unstable", "") >>

\* pres-demo.ts section 1, first copy of the file: stable then unstable
PresDemoScript ==
  << LogLine("Testing STABLE function", ""),
     Loop("addStable", WARMUP, "warmup"),
     Time("Stable function"),
     Loop("addStable", ITERATIONS, "measure"),
     TimeEnd("Stable function"),
     LogLine("Testing UNSTABLE function", ""),
     Loop("addUnstable", WARMUP, "warmup"),
     Time("Unstable function"),
     Loop("addUnstable", ITERATIONS, "measure"),
     TimeEnd("Unstable function"),
     LogLine("Results: stable, unstable", "") >>

\* pres-demo.ts section 1, second copy of the file (performance marks; the
\* unstable function has no warm-up loop there)
PresDemoMarksScript ==
  << Loop("addStable", WARMUP, "warmup"),
     Mark("start-stable-function"),
     Loop("addStable", ITERATIONS, "measure"),
     Mark("end-stable-function"),
     Measure("Stable function", "start-stable-function", "end-stable-function"),
     LogLine("Stable function", "Stable function"),
     Mark("start-unstable-function"),
     Loop("addUnstable", ITERATIONS, "measure"),
     Mark("end-unstable-function"),
     Measure("Unstable function", "start-unstable-function", "end-unstable-function"),
     LogLine("Unstable function", "Unstable function") >>

\* variant of DemoScript whose measure names a start mark that was never
\* recorded
DemoScriptUnknownMark ==
  << Mark("start-monomorphic"),
     Loop("addNumbers", Long, "warmup"),
     Loop("addNumbers", Long, "measure"),
     Mark("end-monomorphic"),
     Measure("Monomorphic Function", "start-monomorphc", "end-monomorphic"),
     LogLine("measure", "Monomorphic Function") >>

\* demo.ts: the start mark is recorded before the warm-up loop
DemoScript ==
  << Mark("start-monomorphic"),
     Loop("addNumbers", Long, "warmup"),
     Loop("addNumbers", Long, "measure"),
     Mark("end-monomorphic"),
     Measure("Monomorphic Function", "start-monomorphic", "end-monomorphic"),
     LogLine("measure", "Monomorphic Function") >>

\* optimization.ts, first copy: four blocks warm-up / time / loop / timeEnd
OptimizationScript ==
  << Loop("addNumbersMonomorphic", Short, "warmup"),
     Time("Monomorphic (numbers only)"),
     Loop("addNumbersMonomorphic", Long, "measure"),
     TimeEnd("Monomorphic (numbers only)"),
     LogLine("Result: sum1", ""),
     LogLine("Function is optimized", ""),
     LogLine("2. Polymorphic Function (Deoptimized)", ""),
     Loop("addPolymorphic", Short, "warmup"),
     Time("Polymorphic (mixed types)"),
     Loop("addPolymorphic", Long, "measure"),
     TimeEnd("Polymorphic (mixed types)"),
     LogLine("Result: sum2", ""),
     LogLine("Function cannot be optimized", ""),
     LogLine("3. Array Operations (Optimized)", ""),
     Loop("sumArray", Short, "warmup"),
     Time("Array sum"),
     Loop("sumArray", Long, "measure"),
     TimeEnd("Array sum"),
     LogLine("Result: sum3", ""),
     LogLine("Optimized - consistent array structure", ""),
     LogLine("4. Stable Hidden Class (Optimized)", ""),
     Loop("calculateDistance", Short, "warmup"),
     Time("Object method calls"),
     Loop("calculateDistance", Long, "measure"),
     TimeEnd("Object method calls"),
     LogLine("Result: sum4", "") >>

\* optimization.ts, second copy: start mark, warm-up loop, loop, one more
\* call inside console.log, end mark, measure
OptimizationMarksScript ==
  << Mark("start-monomorphic"),
     Loop("addNumbers", Long, "warmup"),
     Loop("addNumbers", Long, "measure"),
     Call("addNumbers", "measure"),
     LogLine("Result:", ""),
     Mark("end-monomorphic"),
     Measure("Monomorphic Function", "start-monomorphic", "end-monomorphic"),
     LogLine("measure", "Monomorphic Function") >>

\* inline-cache.ts examples 1 and 2: no warm-up loop at all
InlineCacheScript ==
  << Time("Monomorphic IC"),
     Loop("calculateArea", Long, "measure"),
     TimeEnd("Monomorphic IC"),
     LogLine("IC caches single class", ""),
     LogLine("2. POLYMORPHIC IC - Moderate Performance", ""),
     Time("Polymorphic IC"),
     Loop("calculatePolymorphicArea", Long, "measure"),
     TimeEnd("Polymorphic IC"),
     LogLine("IC handles 3 classes", "") >>

\* inline-cache.ts deepRead section: a warm-up loop, then three regions
\* between performance marks
InlineCacheMarksScript ==
  << Loop("deepRead", Long, "warmup"),
     Mark("start-mono"),
     Loop("deepRead", Long, "measure"),
     Mark("end-mono"),
     Measure("Monomorphic", "start-mono", "end-mono"),
     LogLine("measure", "Monomorphic"),
     Mark("start-poly"),
     Loop("deepRead", Long, "measure"),
     Mark("end-poly"),
     Measure("Polymorphic", "start-poly", "end-poly"),
     LogLine("measure", "Polymorphic"),
     Mark("start-mega"),
     Loop("deepRead", Long, "measure"),
     Mark("end-mega"),
     Measure("Megamorphic", "start-mega", "end-mega"),
     LogLine("measure", "Megamorphic") >>

\* part_002: two regions between performance marks, no warm-up
KickinsScript ==
  << Mark("start-kickins-monomorphic"),
     Loop("addNumbers", Long, "measure"),
     Mark("end-kickins-monomorphic"),
     Measure("first iteration", "start-kickins-monomorphic",
             "end-kickins-monomorphic"),
     LogLine("measure", "first iteration"),
     Mark("start-kickins-2"),
     Loop("addNumbers", Long, "measure"),
     Mark("end-kickins-2"),
     Measure("2nd iteration", "start-kickins-2", "end-kickins-2"),
     LogLine("measure", "2nd iteration") >>

\* part_004: the dynamic-properties region between performance marks
HiddenClassDynamicScript ==
  << Mark("start-hidden-class-example-megamorphic"),
     Loop("getUserInfoDynamic", Long, "measure"),
     Mark("end-hidden-class-example-megamorphic"),
     Measure("Dynamic properties", "start-hidden-class-example-megamorphic",
             "end-hidden-class-example-megamorphic"),
     LogLine("measure", "Dynamic properties") >>

\* variant of ComprehensiveScript whose first console.timeEnd names another
\* label than the console.time before it
ComprehensiveScriptOtherLabel ==
  << LogLine("--- OPTIMIZED FUNCTION ---", ""),
     Loop("addNumbers", Short, "warmup"),
     Time("Optimized (numbers only)"),
     Loop("addNumbers", Long, "measure"),
     TimeEnd("Optimized"),
     LogLine("Result: sum1", ""),
     LogLine("--- DEOPTIMIZED FUNCTION ---", ""),
     Loop("addAnything", Short, "warmup"),
     Time("Deoptimized (mixed types)"),
     Loop("addAnything", Long, "measure"),
     TimeEnd("Deoptimized (mixed types)"),
     LogLine("Result: sum2", "") >>

\* comprehensive demo section 1: two blocks warm-up / time / loop / timeEnd
ComprehensiveScript ==
  << LogLine("--- OPTIMIZED FUNCTION ---", ""),
     Loop("addNumbers", Short, "warmup"),
     Time("Optimized (numbers only)"),
     Loop("addNumbers", Long, "measure"),
     TimeEnd("Optimized (numbers only)"),
     LogLine("Result: sum1", ""),
     LogLine("--- DEOPTIMIZED FUNCTION ---", ""),
     Loop("addAnything", Short, "warmup"),
     Time("Deoptimized (mixed types)"),
     Loop("addAnything", Long, "measure"),
     TimeEnd("Deoptimized (mixed types)"),
     LogLine("Result: sum2", "") >>

ScriptNames ==
  {"pres-demo", "pres-demo-marks", "demo", "optimization",
   "optimization-marks", "inline-cache", "inline-cache-marks", "kickins",
   "hidden-class-dynamic", "comprehensive"}

Program(s) ==
  CASE s = "pres-demo"          -> PresDemoScript
    [] s = "pres-demo-marks"    -> PresDemoMarksScript
    [] s = "demo"               -> DemoScript
    [] s = "optimization"       -> OptimizationScript
    [] s = "optimization-marks" -> OptimizationMarksScript
    [] s = "inline-cache"       -> InlineCacheScript
    [] s = "inline-cache-marks" -> InlineCacheMarksScript
    [] s = "kickins"            -> KickinsScript
    [] s = "hidden-class-dynamic" -> HiddenClassDynamicScript
    [] s = "comprehensive"      -> ComprehensiveScript

Functions ==
  {"addStable", "addUnstable", "addNumbers", "addNumbersMonomorphic",
   "addPolymorphic", "sumArray", "calculateDistance", "calculateArea",
   "calculatePolymorphicArea", "deepRead", "getUserInfoDynamic",
   "addAnything"}

(* ---------------------------------------------------------------------- *)
(* State                                                                   *)
(* ---------------------------------------------------------------------- *)

VARIABLES
  script,    \* the script node is running
  pc,        \* index of the next statement; Len + 1 when the script is over
  i,         \* loop variable of the current for loop
  now,       \* the millisecond clock read by console.time / performance.mark
  calls,     \* per function, how many times it has been invoked
  timers,    \* console's label -> start time table (running timers)
  marks,     \* performance timeline: mark name -> time
  reports,   \* lines printed by console.timeEnd and the measures taken
  log,       \* history of the events executed so far
  output,    \* the lines written to standard output
  argv,      \* trace launcher: process.argv
  cwd,       \* trace launcher: the working directory it is started in
  launcher,  \* trace launcher: position, output, exit status, history
  child      \* trace launcher: the spawned node process

VARIABLES
  example,   \* the example section being run
  epc,       \* index of its next statement; Len + 1 when it is over
  ek,        \* loop variable of the current for loop
  acc,       \* the accumulator variables (monoIC, deleteSum, ...)
  received,  \* per function, the arguments it has been called with
  returned,  \* per function, the values it has returned
  holey,     \* array-holes example: the array created with new Array(n)
  arg,       \* try-catch example: the argument n
  printed    \* the console.log lines that show a computed value

\* the state of a benchmark script
bvars == <<script, pc, i, now, calls, timers, marks, reports, log, output>>

\* the state of the trace launcher
tvars == <<argv, cwd, launcher, child>>

\* the state of an example section
evars == <<example, epc, ek, acc, received, returned, holey, arg, printed>>

vars == <<script, pc, i, now, calls, timers, marks, reports, log, output,
          argv, cwd, launcher, child,
          example, epc, ek, acc, received, returned, holey, arg, printed>>

\* a line of standard output; ms is -1 for a line that shows no duration
Line(text, ms) == [text |-> text, ms |-> ms]

\* variant of Record that keeps only the latest result
RecordOverwriting(rs, r) == <<r>>

\* a new timing result is added after the ones already produced
Record(rs, r) == Append(rs, r)

Event(kind, name, phase, from, to) ==
  [kind |-> kind, name |-> name, phase |-> phase, from |-> from, to |-> to]

Done == pc > Len(Program(script))

Instr == Program(script)[pc]

\* the clock never goes backwards; it may stay put within one statement
Tick(t) == {t2 \in t..(t + 1) : t2 <= MaxClock}

\* variant of Duration with the two timestamps swapped
DurationSwapped(s, e) == s - e

\* elapsed time between a start timestamp and an end timestamp
Duration(s, e) == e - s

\* off-by-one variant of the loop condition:  i <= n
LoopCondInclusive(k, n) == k <= n

\* the loop condition  i < n
LoopCond(k, n) == k < n

(* ---------------------------------------------------------------------- *)
(* The trace launcher (trace.ts): paths, arguments, handlers               *)
(* ---------------------------------------------------------------------- *)

\* a path is the sequence of its segments; an absolute path starts with "/"
ProjectRoot == <<"/", "project">>

\* __dirname of the compiled trace script
Dirname == <<"/", "project", "dist">>

\* a command-line argument: its segments and the separator written between
\* them ("/" or "\\"; irrelevant for a bare file name)
Arg(segs, sep) == [segs |-> segs, sep |-> sep]

\* process.argv[0] and process.argv[1]
NodeAndScript == <<Arg(<<"node">>, "/"), Arg(<<"dist", "trace.js">>, "/")>>

\* the argument lists the launcher is started with
UserArgs ==
  { << >>,
    <<Arg(<<"optimization.js">>, "/")>>,
    <<Arg(<<"examples", "optimization.js">>, "/")>>,
    <<Arg(<<"examples", "optimization.js">>, "\\")>>,
    <<Arg(<<"deoptimization.js">>, "/")>>,
    <<Arg(<<"examples", "deoptimization.js">>, "/")>>,
    <<Arg(<<"inline-cache.js">>, "/"), Arg(<<"optimization.js">>, "/")>> }

\* variant of Args that drops only process.argv[0]
ArgsSliceOne(av) == Tail(av)

\* process.argv.slice(2)
Args(av) == Tail(Tail(av))

\* args.length === 0
ArgsMissing(args) == Len(args) = 0

\* exampleFile.includes(c)
Includes(a, c) == Len(a.segs) > 1 /\ a.sep = c

\* path.join(dir, ...segs)
PathJoin(dir, segs) == dir \o segs

\* const filePath = exampleFile.includes('/') || exampleFile.includes('\\')
\*   ? exampleFile : path.join(__dirname, 'examples', exampleFile)
FilePath(exampleFile) ==
  IF Includes(exampleFile, "/") \/ Includes(exampleFile, "\\")
  THEN exampleFile.segs
  ELSE PathJoin(Dirname, <<"examples", exampleFile.segs[1]>>)

\* the file a process started in directory dir opens for a path
Resolve(dir, path) ==
  IF Len(path) > 0 /\ path[1] = "/" THEN path ELSE dir \o path

\* a child's exit code: << >> is null, <<c>> the number c
ExitCodes == {<< >>} \cup {<<c>> : c \in 0..MaxExitCode}

\* variant of ExitStatus that always reports success
ExitStatusAlwaysZero(code) == 0

\* code ?? 0
ExitStatus(code) == IF code = << >> THEN 0 ELSE code[1]

LauncherStart ==
  [pc |-> "start", out |-> << >>, err |-> << >>, status |-> << >>,
   events |-> << >>, spawns |-> 0, filePath |-> << >>]

NoChild == [state |-> "none", code |-> << >>, lines |-> 0, errored |-> FALSE]

\* process.exit(code): nothing runs afterwards
Exit(l, code) ==
  [l EXCEPT !.pc = "exited", !.status = <<code>>,
            !.events = Append(@, "exit")]

\* lines 13-24: the usage text, then process.exit(1)
UsageAndExit(l) ==
  Exit([l EXCEPT !.out = @ \o <<"Usage: node dist/trace.js <example-file>",
                                "Available examples:",
                                "Example: node dist/trace.js optimization.js">>,
                 !.events = Append(@, "usage")],
       1)

\* lines 26-47: filePath, the header with the Running line, then spawn
HeaderAndSpawn(l, exampleFile) ==
  [l EXCEPT !.filePath = FilePath(exampleFile),
            !.out = @ \o <<"V8 TurboFan Optimization Tracer", "Running:">>,
            !.events = @ \o <<"header", "running", "spawn">>,
            !.spawns = @ + 1,
            !.pc = "waiting"]

\* variant of OnErrorHandler that reports the error and returns
OnErrorHandlerNoExit(l) ==
  [l EXCEPT !.err = Append(@, "Error running example:"),
            !.events = Append(@, "error")]

\* nodeProcess.on('error'): console.error, then process.exit(1)
OnErrorHandler(l) ==
  Exit([l EXCEPT !.err = Append(@, "Error running example:"),
                 !.events = Append(@, "error")],
       1)

\* nodeProcess.on('close'): the footer, then process.exit(code ?? 0)
OnCloseHandler(l, code) ==
  Exit([l EXCEPT !.out = @ \o <<"Trace Complete",
                                "Look for these key messages:",
                                "IC States:">>,
                 !.events = @ \o <<"close", "footer">>],
       ExitStatus(code))

(* ---------------------------------------------------------------------- *)
(* JavaScript values and objects of the example data                       *)
(* ---------------------------------------------------------------------- *)

\* a number; the payload is empty for NaN
Num(x) == [t |-> "number", v |-> <<x>>]

NaN == [t |-> "number", v |-> << >>]

\* a string, as the sequence of its characters
Str(cs) == [t |-> "string", v |-> cs]

Null == [t |-> "null", v |-> << >>]

Undefined == [t |-> "undefined", v |-> << >>]

\* an index of an array that was never assigned
Hole == [t |-> "hole", v |-> << >>]

IsNaN(a) == a.t = "number" /\ a.v = << >>

IsNumber(a) == a.t = "number" /\ a.v # << >>

Digits == <<"0", "1", "2", "3", "4", "5", "6", "7", "8", "9">>

IsDigit(c) == \E d \in 1..10 : Digits[d] = c

DigitValue(c) == (CHOOSE d \in 1..10 : Digits[d] = c) - 1

\* Number.prototype.toString for a non-negative integer
RECURSIVE NumberToString(_)
NumberToString(x) ==
  IF x < 10 THEN <<Digits[x + 1]>>
  ELSE NumberToString(x \div 10) \o <<Digits[(x % 10) + 1]>>

\* the value of a sequence of decimal digits
RECURSIVE DigitsValue(_)
DigitsValue(cs) ==
  IF cs = << >> THEN 0
  ELSE 10 * DigitsValue(SubSeq(cs, 1, Len(cs) - 1)) + DigitValue(cs[Len(cs)])

\* ToNumber: undefined is NaN, null is 0, "" is 0, a decimal string is its
\* value and any other string is NaN
ToNumber(a) ==
  CASE a.t = "number" -> a
    [] a.t = "null" -> Num(0)
    [] a.t = "string" ->
         IF \A p \in 1..Len(a.v) : IsDigit(a.v[p]) THEN Num(DigitsValue(a.v))
         ELSE NaN
    [] OTHER -> NaN

\* ToString
StringOf(a) ==
  CASE a.t = "string" -> a.v
    [] IsNumber(a) -> NumberToString(a.v[1])
    [] IsNaN(a) -> <<"N", "a", "N">>
    [] a.t = "null" -> <<"n", "u", "l", "l">>
    [] OTHER -> <<"u", "n", "d", "e", "f", "i", "n", "e", "d">>

\* a + b: concatenation when either side is a string, else numeric
Add(a, b) ==
  IF a.t = "string" \/ b.t = "string"
  THEN Str(StringOf(a) \o StringOf(b))
  ELSE IF IsNumber(ToNumber(a)) /\ IsNumber(ToNumber(b))
       THEN Num(ToNumber(a).v[1] + ToNumber(b).v[1])
       ELSE NaN

\* a * b
Mul(a, b) ==
  IF IsNumber(ToNumber(a)) /\ IsNumber(ToNumber(b))
  THEN Num(ToNumber(a).v[1] * ToNumber(b).v[1])
  ELSE NaN

\* a === b
StrictEquals(a, b) ==
  /\ a.t = b.t
  /\ a.t = "number" => IsNumber(a) /\ IsNumber(b) /\ a.v[1] = b.v[1]
  /\ a.t = "string" => a.v = b.v

\* a == b: null and undefined equal each other and nothing else; a string
\* compared with a number is converted to a number first
LooseEquals(a, b) ==
  CASE a.t = b.t -> StrictEquals(a, b)
    [] {a.t, b.t} = {"null", "undefined"} -> TRUE
    [] {a.t, b.t} = {"number", "string"} ->
         StrictEquals(ToNumber(a), ToNumber(b))
    [] OTHER -> FALSE

\* a || 0
OrZero(a) ==
  IF \/ a.t \in {"undefined", "null"}
     \/ IsNaN(a)
     \/ a.t = "number" /\ a.v = <<0>>
     \/ a.t = "string" /\ a.v = << >>
  THEN Num(0)
  ELSE a

\* arr[idx] (0-based): a hole reads as undefined
At(arr, idx) == IF arr[idx + 1].t = "hole" THEN Undefined ELSE arr[idx + 1]

\* an object: its class and its own properties in insertion order
Obj(class, props) == [class |-> class, props |-> props]

Prop(key, val) == [key |-> key, val |-> val]

HasOwn(o, key) == \E p \in 1..Len(o.props) : o.props[p].key = key

\* o.key: undefined when the object has no such property
Get(o, key) ==
  IF HasOwn(o, key)
  THEN o.props[CHOOSE p \in 1..Len(o.props) : o.props[p].key = key].val
  ELSE Undefined

\* o.key = val: in place for an own property, appended otherwise
Set(o, key, val) ==
  IF HasOwn(o, key)
  THEN [o EXCEPT !.props =
          [p \in 1..Len(o.props) |->
             IF o.props[p].key = key THEN Prop(key, val) ELSE o.props[p]]]
  ELSE [o EXCEPT !.props = Append(@, Prop(key, val))]

RECURSIVE Without(_, _)
Without(ps, key) ==
  IF ps = << >> THEN << >>
  ELSE IF ps[1].key = key THEN Without(Tail(ps), key)
       ELSE <<ps[1]>> \o Without(Tail(ps), key)

\* delete o.key
Delete(o, key) == [o EXCEPT !.props = Without(@, key)]

\* the shape of an object: the ordered list of its own property names
Shape(o) == [p \in 1..Len(o.props) |-> o.props[p].key]

(* ---------------------------------------------------------------------- *)
(* The example sections that compute on data: their loops in program       *)
(* order, the data they build and the functions they call                  *)
(* ---------------------------------------------------------------------- *)

\* `${prefix}${x}`
Template(prefix, x) == Str(prefix \o NumberToString(x))

\* new Dog(name, age), new Cat(name, age), ...
Animal(class, name, age) ==
  Obj(class, <<Prop("name", name), Prop("age", Num(age))>>)

\* animal.makeSound()
MakeSound(animal) ==
  CASE animal.class = "Dog"   -> Str(<<"W", "o", "o", "f", "!">>)
    [] animal.class = "Cat"   -> Str(<<"M", "e", "o", "w", "!">>)
    [] animal.class = "Bird"  -> Str(<<"T", "w", "e", "e", "t", "!">>)
    [] animal.class = "Horse" -> Str(<<"N", "e", "i", "g", "h", "!">>)
    [] animal.class = "Cow"   -> Str(<<"M", "o", "o", "!">>)
    [] animal.class = "Sheep" -> Str(<<"B", "a", "a", "!">>)

NewDog(x) == Animal("Dog", Template(<<"D", "o", "g">>, x), x % 10)

NewCat(x) == Animal("Cat", Template(<<"C", "a", "t">>, x), x % 10)

NewBird(x) == Animal("Bird", Template(<<"B", "i", "r", "d">>, x), x % 10)

NewHorse(x) == Animal("Horse", Template(<<"H", "o", "r", "s", "e">>, x), x % 10)

NewCow(x) == Animal("Cow", Template(<<"C", "o", "w">>, x), x % 10)

NewSheep(x) == Animal("Sheep", Template(<<"S", "h", "e", "e", "p">>, x), x % 10)

\* the array of the monomorphic test
dogs == [p \in 1..AnimalCount |-> NewDog(p - 1)]

\* the array of the polymorphic test
mixedAnimals ==
  [p \in 1..AnimalCount |->
     CASE (p - 1) % 4 = 0 -> NewDog(p - 1)
       [] (p - 1) % 4 = 1 -> NewCat(p - 1)
       [] (p - 1) % 4 = 2 -> NewBird(p - 1)
       [] OTHER           -> NewHorse(p - 1)]

\* variant of manyAnimals that repeats the four classes of mixedAnimals
manyAnimalsFourClasses == mixedAnimals

\* the array of the megamorphic test
manyAnimals ==
  [p \in 1..AnimalCount |->
     CASE (p - 1) % 6 = 0 -> NewDog(p - 1)
       [] (p - 1) % 6 = 1 -> NewCat(p - 1)
       [] (p - 1) % 6 = 2 -> NewBird(p - 1)
       [] (p - 1) % 6 = 3 -> NewHorse(p - 1)
       [] (p - 1) % 6 = 4 -> NewCow(p - 1)
       [] OTHER           -> NewSheep(p - 1)]

\* function getAnimalInfo(animal)
getAnimalInfo(animal) ==
  Add(Add(Get(animal, "name"), Str(<<":", " ">>)), MakeSound(animal))

\* function getAnimalInfoPoly(animal): same body, its own call site
getAnimalInfoPoly(animal) ==
  Add(Add(Get(animal, "name"), Str(<<":", " ">>)), MakeSound(animal))

\* function getAnimalInfoMega(animal): same body, its own call site
getAnimalInfoMega(animal) ==
  Add(Add(Get(animal, "name"), Str(<<":", " ">>)), MakeSound(animal))

\* for (let i = 0; i < n; i++) { fn(array[i % array.length]) }
LoopOver(fn, array, n, phase) == [Loop(fn, n, phase) EXCEPT !.from = array]

\* pres-demo.ts section 3: warm-up and measured loop of the three tests
InlineCacheStates ==
  << LoopOver("getAnimalInfo", "dogs", WARMUP, "warmup"),
     LoopOver("getAnimalInfo", "dogs", ITERATIONS, "measure"),
     LoopOver("getAnimalInfoPoly", "mixedAnimals", WARMUP, "warmup"),
     LoopOver("getAnimalInfoPoly", "mixedAnimals", ITERATIONS, "measure"),
     LoopOver("getAnimalInfoMega", "manyAnimals", WARMUP, "warmup"),
     LoopOver("getAnimalInfoMega", "manyAnimals", ITERATIONS, "measure") >>

\* an object literal { a: 1, b: 2 } whose values are numbers
Literal(keys, vals) ==
  Obj("Object", [p \in 1..Len(keys) |-> Prop(keys[p], Num(vals[p]))])

obj1 == Literal(<<"value">>, <<10>>)

obj2 == Literal(<<"value">>, <<20>>)

obj3 == Literal(<<"value">>, <<30>>)

objA == Literal(<<"value">>, <<10>>)

\* { value: 20, extra: 'data' }
objB ==
  Obj("Object", <<Prop("value", Num(20)),
                  Prop("extra", Str(<<"d", "a", "t", "a">>))>>)

objC == Literal(<<"other", "value">>, <<5, 30>>)

objD == Literal(<<"value", "x", "y">>, <<40, 1, 2>>)

\* `prop${j}` for the j the loop reaches (j < i % 5)
PropName == <<"prop0", "prop1", "prop2", "prop3">>

\* for (let j = 0; j < n; j++) { obj[`prop${j}`] = j }, iterations from..n-1
RECURSIVE AddProps(_, _, _)
AddProps(o, from, n) ==
  IF from < n
  THEN AddProps(Set(o, PropName[from + 1], Num(from)), from + 1, n)
  ELSE o

\* variant of objects in which every object gets the same four properties
objectsOneShape ==
  [p \in 1..ObjectCount |->
     AddProps(Literal(<<"value">>, <<p - 1>>), 0, 4)]

\* the array of the megamorphic test: object i gets i % 5 extra properties
objects ==
  [p \in 1..ObjectCount |->
     AddProps(Literal(<<"value">>, <<p - 1>>), 0, (p - 1) % 5)]

processMonomorphic(obj) == Mul(Get(obj, "value"), Num(2))

processPolymorphic(obj) == Mul(Get(obj, "value"), Num(2))

processMegamorphic(obj) == Mul(Get(obj, "value"), Num(2))

\* monomorphic.ts sections 1 to 3: one measured loop each, no warm-up
Monomorphic ==
  << Loop("processMonomorphic", Million, "measure"),
     Loop("processPolymorphic", Million, "measure"),
     LoopOver("processMegamorphic", "objects", Million, "measure") >>

\* const packed = [1, 2, 3, 4, 5]
packed == [p \in 1..ArrayLength |-> Num(p)]

\* new Array(n): every index is a hole
NewArray(n) == [p \in 1..n |-> Hole]

\* new Array(5) followed by holey[x] = x + 1 for the indexes x in assigned
HoleyWith(assigned) ==
  [p \in 1..ArrayLength |->
     IF (p - 1) \in assigned THEN Num(p) ELSE NewArray(ArrayLength)[p]]

\* the holey array of the source: index 2 is never assigned
HoleyInSource == HoleyWith({0, 1, 3, 4})

\* the arrays sumArrayOptimized is checked on: any set of indexes assigned
HoleyArrays == {HoleyWith(S) : S \in SUBSET (0..(ArrayLength - 1))}

\* the loop of sumArrayOptimized from index x on
RECURSIVE SumFrom(_, _, _)
SumFrom(arr, x, sum) ==
  IF x < Len(arr) THEN SumFrom(arr, x + 1, Add(sum, At(arr, x))) ELSE sum

sumArrayOptimized(arr) == SumFrom(arr, 0, Num(0))

\* console.log(label, fn(array))
LogValue(label, fn, array) ==
  [LogLine(label, array) EXCEPT !.phase = fn]

\* part_001 example 4: the two sums printed
ArrayHoles ==
  << LogValue("Packed array sum:", "sumArrayOptimized", "packed"),
     LogValue("Holey array sum:", "sumArrayOptimized", "holey") >>

\* { id: i, name: `Product${i}`, price: i * 10, stock: i }
NewProduct(x) ==
  Obj("Object",
      <<Prop("id", Num(x)),
        Prop("name", Template(<<"P", "r", "o", "d", "u", "c", "t">>, x)),
        Prop("price", Num(x * 10)),
        Prop("stock", Num(x))>>)

\* the products every processWith... call creates
products == [p \in 1..ProductCount |-> NewProduct(p - 1)]

\* let sum = 0; for (...) sum += ps[i][key], from index x on
RECURSIVE SumOf(_, _, _, _)
SumOf(ps, key, x, sum) ==
  IF x < Len(ps) THEN SumOf(ps, key, x + 1, Add(sum, Get(ps[x + 1], key)))
  ELSE sum

\* variant of processWithDelete that adds up the stock it has just deleted
processWithDeleteSummingStock ==
  SumOf([p \in 1..Len(products) |->
           IF (p - 1) % 2 = 0 THEN Delete(products[p], "stock")
           ELSE products[p]],
        "stock", 0, Num(0))

\* delete products[i].stock for even i, then the sum of the prices
processWithDelete ==
  SumOf([p \in 1..Len(products) |->
           IF (p - 1) % 2 = 0 THEN Delete(products[p], "stock")
           ELSE products[p]],
        "price", 0, Num(0))

\* products[i].stock = undefined for even i, then the sum of the prices
processWithUndefined ==
  SumOf([p \in 1..Len(products) |->
           IF (p - 1) % 2 = 0 THEN Set(products[p], "stock", Undefined)
           ELSE products[p]],
        "price", 0, Num(0))

\* products[i].stock = null for even i, then the sum of the prices
processWithNull ==
  SumOf([p \in 1..Len(products) |->
           IF (p - 1) % 2 = 0 THEN Set(products[p], "stock", Null)
           ELSE products[p]],
        "price", 0, Num(0))

\* pres-demo.ts section 8: warm-up and measured loop of the three variants
PropertyRemoval ==
  << Loop("processWithDelete", Short, "warmup"),
     Loop("processWithDelete", Long, "measure"),
     Loop("processWithUndefined", Short, "warmup"),
     Loop("processWithUndefined", Long, "measure"),
     Loop("processWithNull", Short, "warmup"),
     Loop("processWithNull", Long, "measure") >>

\* comprehensive demo: { name: `Product${i}`, price: i * 10, stock: i }
NewStockProduct(x) ==
  Obj("Object",
      <<Prop("name", Template(<<"P", "r", "o", "d", "u", "c", "t">>, x)),
        Prop("price", Num(x * 10)),
        Prop("stock", Num(x))>>)

\* the stock of every even product is deleted before it is pushed
deletedProducts ==
  [p \in 1..ProductCount |->
     IF (p - 1) % 2 = 0 THEN Delete(NewStockProduct(p - 1), "stock")
     ELSE NewStockProduct(p - 1)]

\* the stock of every even product is created as undefined
nullProducts ==
  [p \in 1..ProductCount |->
     Set(NewStockProduct(p - 1), "stock",
         IF (p - 1) % 2 = 0 THEN Undefined ELSE Num(p - 1))]

\* product.stock !== undefined ? product.price * product.stock : 0
calculateValue(product) ==
  IF ~StrictEquals(Get(product, "stock"), Undefined)
  THEN Mul(Get(product, "price"), Get(product, "stock"))
  ELSE Num(0)

\* comprehensive demo section 4: warm-up and measured loop of both arrays
PropertyDeletion ==
  << LoopOver("calculateValue", "deletedProducts", Short, "warmup"),
     LoopOver("calculateValue", "deletedProducts", Long, "measure"),
     LoopOver("calculateValue", "nullProducts", Short, "warmup"),
     LoopOver("calculateValue", "nullProducts", Long, "measure") >>

\* const testValues = new Array(1000); testValues[i] = i for every index
testValues == [p \in 1..TestValuesLength |-> Num(p - 1)]

\* the three values each iteration compares with (500, 250 and 750 of 1000
\* in the source: the middle and the quarters of the array)
Targets ==
  <<Num(TestValuesLength \div 2), Num(TestValuesLength \div 4),
    Num((3 * TestValuesLength) \div 4)>>

\* for (...) { const val = array[i % array.length]; if (val op ...) count++ }
CompareLoop(op, array, n) == LoopOver(op, array, n, "measure")

\* pres-demo.ts section 4: the === loop, then the == loop
DoubleVsTripleEquals ==
  << CompareLoop("===", "testValues", ITERATIONS),
     CompareLoop("==", "testValues", ITERATIONS) >>

\* variant of mixedArray with the strings at the indexes divisible by 4 and
\* the numbers after them
mixedArrayStringsFirst ==
  [p \in 1..MixedArrayLength |->
     CASE (p - 1) % 4 = 0 -> Str(NumberToString(p - 1))
       [] (p - 1) % 4 = 1 -> Num(p - 1)
       [] (p - 1) % 4 = 2 -> Null
       [] OTHER           -> Undefined]

\* comprehensive demo: number, string, null, undefined in turn
mixedArray ==
  [p \in 1..MixedArrayLength |->
     CASE (p - 1) % 4 = 0 -> Num(p - 1)
       [] (p - 1) % 4 = 1 -> Str(NumberToString(p - 1))
       [] (p - 1) % 4 = 2 -> Null
       [] OTHER           -> Undefined]

\* comprehensive demo section 5: the == loop, then the === loop
LooseVsStrictEquality ==
  << CompareLoop("==", "mixedArray", Million),
     CompareLoop("===", "mixedArray", Million) >>

\* a op b for the two equality operators
Compare(op, a, b) ==
  IF op = "===" THEN StrictEquals(a, b) ELSE LooseEquals(a, b)

\* let result = 0; for (let i = 0; i < n; i++) { result += i }, from i = x
RECURSIVE AddUp(_, _, _)
AddUp(x, n, result) ==
  IF x < n THEN AddUp(x + 1, n, Add(result, Num(x))) ELSE result

withoutTryCatch(n) == AddUp(0, n, Num(0))

\* variant of TryBlock in which the block throws
TryBlockThrowing(n) == [type |-> "throw", value |-> Undefined]

\* how the try block of withTryCatch completes: adding numbers does not
\* throw, so it returns the result
TryBlock(n) == [type |-> "return", value |-> AddUp(0, n, Num(0))]

\* try { ... return result } catch (e) { return 0 }, with whether the catch
\* branch ran
withTryCatch(n) ==
  IF TryBlock(n).type = "throw"
  THEN [value |-> Num(0), caught |-> TRUE]
  ELSE [value |-> TryBlock(n).value, caught |-> FALSE]

\* part_001 example 6: the two measured loops
TryCatch ==
  << Loop("withoutTryCatch", Long, "measure"),
     Loop("withTryCatch", Long, "measure") >>

\* the example sections
ExampleNames ==
  {"inline-cache-states", "monomorphic", "array-holes", "property-removal",
   "property-deletion", "double-vs-triple-equals",
   "loose-vs-strict-equality", "try-catch"}

ExampleProgram(e) ==
  CASE e = "inline-cache-states" -> InlineCacheStates
    [] e = "monomorphic"         -> Monomorphic
    [] e = "array-holes"         -> ArrayHoles
    [] e = "property-removal"    -> PropertyRemoval
    [] e = "property-deletion"   -> PropertyDeletion
    [] e = "double-vs-triple-equals"  -> DoubleVsTripleEquals
    [] e = "loose-vs-strict-equality" -> LooseVsStrictEquality
    [] e = "try-catch"           -> TryCatch

\* the arrays the loops index, by the name of the variable
ArrayNamed(a) ==
  CASE a = "dogs"         -> dogs
    [] a = "mixedAnimals" -> mixedAnimals
    [] a = "manyAnimals"  -> manyAnimals
    [] a = "objects"      -> objects
    [] a = "packed"       -> packed
    [] a = "holey"        -> holey
    [] a = "deletedProducts" -> deletedProducts
    [] a = "nullProducts" -> nullProducts
    [] a = "testValues"   -> testValues
    [] a = "mixedArray"   -> mixedArray

\* the functions the example loops call
ExampleFunctions ==
  {"getAnimalInfo", "getAnimalInfoPoly", "getAnimalInfoMega",
   "processMonomorphic", "processPolymorphic", "processMegamorphic",
   "sumArrayOptimized", "processWithDelete", "processWithUndefined",
   "processWithNull", "calculateValue", "withoutTryCatch", "withTryCatch"}

\* the variables the measured loops add to
Accumulators ==
  {"monoIC", "polyIC", "megaIC", "deleteSum", "undefinedSum", "nullSum",
   "deletedSum", "tripleCount", "doubleCount", "looseCount", "strictCount",
   "catches"}

\* no example section is running
ExampleIdle ==
  /\ example = ""
  /\ epc = 1
  /\ ek = 0
  /\ acc = << >>
  /\ received = << >>
  /\ returned = << >>
  /\ holey = << >>
  /\ arg = 0
  /\ printed = << >>

Init ==
  /\ script \in ScriptNames
  /\ pc = 1
  /\ i = 0
  /\ now = 0
  /\ calls = [f \in Functions |-> 0]
  /\ timers = << >>
  /\ marks = << >>
  /\ reports = << >>
  /\ log = << >>
  /\ output = << >>
  /\ argv = NodeAndScript
  /\ cwd = ProjectRoot
  /\ launcher = LauncherStart
  /\ child = NoChild
  /\ ExampleIdle

(* ---------------------------------------------------------------------- *)
(* Actions: one per statement kind                                         *)
(* ---------------------------------------------------------------------- *)

\* one iteration of a for loop: the body calls the function once, i++
LoopIter ==
  /\ ~Done
  /\ Instr.op = "loop"
  /\ LoopCond(i, Instr.n)
  /\ calls' = [calls EXCEPT ![Instr.name] = @ + 1]
  /\ log' = Append(log, Event("call", Instr.name, Instr.phase, "", ""))
  /\ i' = i + 1
  /\ now' \in Tick(now)
  /\ UNCHANGED <<script, pc, timers, marks, reports, output>>
  /\ UNCHANGED <<tvars, evars>>

\* the loop condition is false: fall through to the next statement
LoopExit ==
  /\ ~Done
  /\ Instr.op = "loop"
  /\ ~LoopCond(i, Instr.n)
  /\ pc' = pc + 1
  /\ i' = 0
  /\ UNCHANGED <<script, now, calls, timers, marks, reports, log, output>>
  /\ UNCHANGED <<tvars, evars>>

\* a call outside a loop
SingleCall ==
  /\ ~Done
  /\ Instr.op = "call"
  /\ calls' = [calls EXCEPT ![Instr.name] = @ + 1]
  /\ log' = Append(log, Event("call", Instr.name, Instr.phase, "", ""))
  /\ pc' = pc + 1
  /\ now' \in Tick(now)
  /\ UNCHANGED <<script, i, timers, marks, reports, output>>
  /\ UNCHANGED <<tvars, evars>>

\* console.time(label): starts the label's timer unless it is running
ConsoleTime ==
  /\ ~Done
  /\ Instr.op = "time"
  /\ timers' = IF Instr.name \in DOMAIN timers
               THEN timers
               ELSE [l \in DOMAIN timers \cup {Instr.name} |->
                       IF l = Instr.name THEN now ELSE timers[l]]
  /\ log' = Append(log, Event("time", Instr.name, "", "", ""))
  /\ pc' = pc + 1
  /\ now' \in Tick(now)
  /\ UNCHANGED <<script, i, calls, marks, reports, output>>
  /\ UNCHANGED <<tvars, evars>>

\* console.timeEnd(label): prints now - start and forgets the label; for a
\* label that is not running it only warns on the error stream
ConsoleTimeEnd ==
  /\ ~Done
  /\ Instr.op = "timeEnd"
  /\ IF Instr.name \in DOMAIN timers
     THEN /\ reports' = Record(reports,
                          [name |-> Instr.name,
                           elapsed |-> Duration(timers[Instr.name], now)])
          /\ output' = Append(output,
                          Line(Instr.name, Duration(timers[Instr.name], now)))
          /\ timers' = [l \in DOMAIN timers \ {Instr.name} |-> timers[l]]
     ELSE UNCHANGED <<reports, timers, output>>
  /\ log' = Append(log, Event("timeEnd", Instr.name, "", "", ""))
  /\ pc' = pc + 1
  /\ now' \in Tick(now)
  /\ UNCHANGED <<script, i, calls, marks>>
  /\ UNCHANGED <<tvars, evars>>

\* performance.mark(name): records the current time under the name
PerformanceMark ==
  /\ ~Done
  /\ Instr.op = "mark"
  /\ marks' = [m \in DOMAIN marks \cup {Instr.name} |->
                 IF m = Instr.name THEN now ELSE marks[m]]
  /\ log' = Append(log, Event("mark", Instr.name, "", "", ""))
  /\ pc' = pc + 1
  /\ now' \in Tick(now)
  /\ UNCHANGED <<script, i, calls, timers, reports, output>>
  /\ UNCHANGED <<tvars, evars>>

\* performance.measure(name, start, end): duration between two marks; an
\* unknown mark name throws and ends the script
PerformanceMeasure ==
  /\ ~Done
  /\ Instr.op = "measure"
  /\ IF Instr.from \in DOMAIN marks /\ Instr.to \in DOMAIN marks
     THEN /\ reports' = Record(reports,
                          [name |-> Instr.name,
                           elapsed |-> Duration(marks[Instr.from], marks[Instr.to])])
          /\ pc' = pc + 1
     ELSE /\ reports' = reports
          /\ pc' = Len(Program(script)) + 1
  /\ log' = Append(log, Event("measure", Instr.name, "", Instr.from, Instr.to))
  /\ now' \in Tick(now)
  /\ UNCHANGED <<script, i, calls, timers, marks, output>>
  /\ UNCHANGED <<tvars, evars>>

\* the duration of the latest measure of that name; -1 when there is none
MeasuredDuration(name) ==
  LET hits == {k \in 1..Len(reports) : reports[k].name = name}
  IN  IF hits = {} THEN -1
      ELSE reports[CHOOSE k \in hits : \A h \in hits : h <= k].elapsed

\* console.log(...): writes one line
ConsoleLog ==
  /\ ~Done
  /\ Instr.op = "print"
  /\ output' = Append(output,
                  IF Instr.from = "" THEN Line(Instr.name, -1)
                  ELSE Line(Instr.name, MeasuredDuration(Instr.from)))
  /\ log' = Append(log, Event("print", Instr.name, "", "", ""))
  /\ pc' = pc + 1
  /\ now' \in Tick(now)
  /\ UNCHANGED <<script, i, calls, timers, marks, reports>>
  /\ UNCHANGED <<tvars, evars>>

Next ==
  \/ LoopIter
  \/ LoopExit
  \/ SingleCall
  \/ ConsoleTime
  \/ ConsoleTimeEnd
  \/ PerformanceMark
  \/ PerformanceMeasure
  \/ ConsoleLog

Spec == Init /\ [][Next]_vars

\* node runs a script to completion: a statement that can execute does
FairSpec == Spec /\ WF_vars(Next)

(* ---------------------------------------------------------------------- *)
(* The trace launcher: one action per top-level path and per event         *)
(* ---------------------------------------------------------------------- *)

TraceInit ==
  /\ script = "optimization"
  /\ pc = 1
  /\ i = 0
  /\ now = 0
  /\ calls = [f \in Functions |-> 0]
  /\ timers = << >>
  /\ marks = << >>
  /\ reports = << >>
  /\ log = << >>
  /\ output = << >>
  /\ argv \in {NodeAndScript \o ua : ua \in UserArgs}
  /\ cwd \in {ProjectRoot, Dirname}
  /\ launcher = LauncherStart
  /\ child = NoChild
  /\ ExampleIdle

\* started without an example: usage and exit status 1
TraceUsage ==
  /\ launcher.pc = "start"
  /\ ArgsMissing(Args(argv))
  /\ launcher' = UsageAndExit(launcher)
  /\ UNCHANGED <<argv, cwd, child>>
  /\ UNCHANGED <<bvars, evars>>

\* started with an example: header, spawn, handlers registered; the spawn
\* either starts the child or fails (reported later by an 'error' event)
TraceLaunch ==
  /\ launcher.pc = "start"
  /\ ~ArgsMissing(Args(argv))
  /\ launcher' = HeaderAndSpawn(launcher, Args(argv)[1])
  /\ \E ok \in BOOLEAN :
       child' = IF ok
                THEN [NoChild EXCEPT !.state = "running"]
                ELSE [NoChild EXCEPT !.state = "failed", !.code = <<0 - 2>>]
  /\ UNCHANGED <<argv, cwd>>
  /\ UNCHANGED <<bvars, evars>>

\* the child writes a line to the standard output it inherited
ChildWrite ==
  /\ launcher.pc = "waiting"
  /\ child.state = "running"
  /\ child.lines < MaxChildLines
  /\ child' = [child EXCEPT !.lines = @ + 1]
  /\ launcher' = [launcher EXCEPT !.out = Append(@, "child output")]
  /\ UNCHANGED <<argv, cwd>>
  /\ UNCHANGED <<bvars, evars>>

\* the child ends with an exit code, or with none when a signal ended it
ChildExit ==
  /\ child.state = "running"
  /\ \E code \in ExitCodes : child' = [child EXCEPT !.state = "closed", !.code = code]
  /\ UNCHANGED <<argv, cwd, launcher>>
  /\ UNCHANGED <<bvars, evars>>

\* the 'error' event of a failed spawn reaches its handler
OnError ==
  /\ launcher.pc = "waiting"
  /\ child.state = "failed"
  /\ ~child.errored
  /\ launcher' = OnErrorHandler(launcher)
  /\ child' = [child EXCEPT !.errored = TRUE]
  /\ UNCHANGED <<argv, cwd>>
  /\ UNCHANGED <<bvars, evars>>

\* the 'close' event reaches its handler: after the child ended, or after
\* the 'error' event of a failed spawn
OnClose ==
  /\ launcher.pc = "waiting"
  /\ \/ child.state = "closed"
     \/ child.state = "failed" /\ child.errored
  /\ launcher' = OnCloseHandler(launcher, child.code)
  /\ UNCHANGED <<argv, cwd, child>>
  /\ UNCHANGED <<bvars, evars>>

TraceNext ==
  \/ TraceUsage
  \/ TraceLaunch
  \/ ChildWrite
  \/ ChildExit
  \/ OnError
  \/ OnClose

TraceSpec == TraceInit /\ [][TraceNext]_vars

(* ---------------------------------------------------------------------- *)
(* The example sections: one action per loop body                          *)
(* ---------------------------------------------------------------------- *)

ExampleInit ==
  /\ script = "optimization"
  /\ pc = 1
  /\ i = 0
  /\ now = 0
  /\ calls = [f \in Functions |-> 0]
  /\ timers = << >>
  /\ marks = << >>
  /\ reports = << >>
  /\ log = << >>
  /\ output = << >>
  /\ argv = NodeAndScript
  /\ cwd = ProjectRoot
  /\ launcher = LauncherStart
  /\ child = NoChild
  /\ example \in ExampleNames
  /\ epc = 1
  /\ ek = 0
  /\ acc = [a \in Accumulators |-> Num(0)]
  /\ received = [f \in ExampleFunctions |-> {}]
  /\ returned = [f \in ExampleFunctions |-> {}]
  /\ holey \in (IF example = "array-holes" THEN HoleyArrays ELSE {<< >>})
  /\ arg \in (IF example = "try-catch" THEN 0..MaxN ELSE {0})
  /\ printed = << >>

ExampleDone == epc > Len(ExampleProgram(example))

Stmt == ExampleProgram(example)[epc]

\* array[i % array.length], as the array and the index read
ElementRef(array, x) == [array |-> array, index |-> x % Len(ArrayNamed(array))]

Deref(ref) == ArrayNamed(ref.array)[ref.index + 1]

\* pres-demo.ts section 3, one iteration of a warm-up or measured loop:
\* the function is called with the next element of the loop's array; the
\* measured loops add the length of the returned string
InlineCacheIteration ==
  /\ example = "inline-cache-states"
  /\ ~ExampleDone
  /\ LoopCond(ek, Stmt.n)
  /\ LET ref == ElementRef(Stmt.from, ek)
         result == CASE Stmt.name = "getAnimalInfo" -> getAnimalInfo(Deref(ref))
                     [] Stmt.name = "getAnimalInfoPoly" -> getAnimalInfoPoly(Deref(ref))
                     [] Stmt.name = "getAnimalInfoMega" -> getAnimalInfoMega(Deref(ref))
         sum == CASE Stmt.name = "getAnimalInfo" -> "monoIC"
                  [] Stmt.name = "getAnimalInfoPoly" -> "polyIC"
                  [] Stmt.name = "getAnimalInfoMega" -> "megaIC"
     IN /\ received' = [received EXCEPT ![Stmt.name] = @ \cup {ref}]
        /\ acc' = IF Stmt.phase = "measure"
                  THEN [acc EXCEPT ![sum] = Add(@, Num(Len(result.v)))]
                  ELSE acc
  /\ ek' = ek + 1
  /\ UNCHANGED <<example, epc, returned, holey, arg, printed>>
  /\ UNCHANGED <<bvars, tvars>>

\* monomorphic.ts, one iteration of a measured loop: the body calls the
\* function with obj1..obj3, with objA..objD, or with the next element of
\* objects; the results are dropped
MonomorphicIteration ==
  /\ example = "monomorphic"
  /\ ~ExampleDone
  /\ LoopCond(ek, Stmt.n)
  /\ LET args == CASE Stmt.name = "processMonomorphic" -> <<obj1, obj2, obj3>>
                   [] Stmt.name = "processPolymorphic" ->
                        <<objA, objB, objC, objD>>
                   [] Stmt.name = "processMegamorphic" ->
                        <<Deref(ElementRef(Stmt.from, ek))>>
         result(o) == CASE Stmt.name = "processMonomorphic" -> processMonomorphic(o)
                        [] Stmt.name = "processPolymorphic" -> processPolymorphic(o)
                        [] Stmt.name = "processMegamorphic" -> processMegamorphic(o)
     IN /\ received' = [received EXCEPT ![Stmt.name] =
                          @ \cup {args[p] : p \in 1..Len(args)}]
        /\ returned' = [returned EXCEPT ![Stmt.name] =
                          @ \cup {result(args[p]) : p \in 1..Len(args)}]
  /\ ek' = ek + 1
  /\ UNCHANGED <<example, epc, acc, holey, arg, printed>>
  /\ UNCHANGED <<bvars, tvars>>

\* part_001 example 4, console.log(label, sumArrayOptimized(array))
ArrayHolesPrint ==
  /\ example = "array-holes"
  /\ ~ExampleDone
  /\ Stmt.op = "print"
  /\ LET result == sumArrayOptimized(ArrayNamed(Stmt.from))
     IN /\ printed' = Append(printed, [label |-> Stmt.name,
                                       of |-> Stmt.from,
                                       value |-> result])
        /\ returned' = [returned EXCEPT ![Stmt.phase] = @ \cup {result}]
  /\ epc' = epc + 1
  /\ UNCHANGED <<example, ek, acc, received, holey, arg>>
  /\ UNCHANGED <<bvars, tvars>>

\* pres-demo.ts section 8, one iteration of a warm-up or measured loop: the
\* variant is called; the measured loops add what it returns
PropertyRemovalIteration ==
  /\ example = "property-removal"
  /\ ~ExampleDone
  /\ LoopCond(ek, Stmt.n)
  /\ LET result == CASE Stmt.name = "processWithDelete" -> processWithDelete
                     [] Stmt.name = "processWithUndefined" -> processWithUndefined
                     [] Stmt.name = "processWithNull" -> processWithNull
         sum == CASE Stmt.name = "processWithDelete" -> "deleteSum"
                  [] Stmt.name = "processWithUndefined" -> "undefinedSum"
                  [] Stmt.name = "processWithNull" -> "nullSum"
     IN /\ returned' = [returned EXCEPT ![Stmt.name] = @ \cup {result}]
        /\ acc' = IF Stmt.phase = "measure"
                  THEN [acc EXCEPT ![sum] = Add(@, result)]
                  ELSE acc
  /\ ek' = ek + 1
  /\ UNCHANGED <<example, epc, received, holey, arg, printed>>
  /\ UNCHANGED <<bvars, tvars>>

\* comprehensive demo section 4, one iteration of a warm-up or measured
\* loop: calculateValue of the next product; the measured loops add it
PropertyDeletionIteration ==
  /\ example = "property-deletion"
  /\ ~ExampleDone
  /\ LoopCond(ek, Stmt.n)
  /\ LET ref == ElementRef(Stmt.from, ek)
         result == calculateValue(Deref(ref))
         sum == IF Stmt.from = "deletedProducts" THEN "deletedSum"
                ELSE "nullSum"
     IN /\ received' = [received EXCEPT ![Stmt.name] = @ \cup {ref}]
        /\ returned' = [returned EXCEPT ![Stmt.name] = @ \cup {result}]
        /\ acc' = IF Stmt.phase = "measure"
                  THEN [acc EXCEPT ![sum] = Add(@, result)]
                  ELSE acc
  /\ ek' = ek + 1
  /\ UNCHANGED <<example, epc, holey, arg, printed>>
  /\ UNCHANGED <<bvars, tvars>>

\* pres-demo.ts section 4, one iteration of the === or the == loop: the
\* counter goes up once for each of the three comparisons that holds
DoubleVsTripleIteration ==
  /\ example = "double-vs-triple-equals"
  /\ ~ExampleDone
  /\ LoopCond(ek, Stmt.n)
  /\ LET val == At(ArrayNamed(Stmt.from), ek % Len(ArrayNamed(Stmt.from)))
         hits == Cardinality({p \in 1..Len(Targets) :
                                Compare(Stmt.name, val, Targets[p])})
         count == IF Stmt.name = "===" THEN "tripleCount" ELSE "doubleCount"
     IN acc' = [acc EXCEPT ![count] = Add(@, Num(hits))]
  /\ ek' = ek + 1
  /\ UNCHANGED <<example, epc, received, returned, holey, arg, printed>>
  /\ UNCHANGED <<bvars, tvars>>

\* comprehensive demo section 5, one iteration of the == or the === loop:
\* the counter goes up when the element equals 0
LooseVsStrictIteration ==
  /\ example = "loose-vs-strict-equality"
  /\ ~ExampleDone
  /\ LoopCond(ek, Stmt.n)
  /\ LET val == At(ArrayNamed(Stmt.from), ek % Len(ArrayNamed(Stmt.from)))
         count == IF Stmt.name = "==" THEN "looseCount" ELSE "strictCount"
     IN acc' = IF Compare(Stmt.name, val, Num(0))
               THEN [acc EXCEPT ![count] = Add(@, Num(1))]
               ELSE acc
  /\ ek' = ek + 1
  /\ UNCHANGED <<example, epc, received, returned, holey, arg, printed>>
  /\ UNCHANGED <<bvars, tvars>>

\* part_001 example 6, one iteration of a measured loop: the function is
\* called with n and its result dropped; catches counts the calls that ended
\* in the catch branch
TryCatchIteration ==
  /\ example = "try-catch"
  /\ ~ExampleDone
  /\ LoopCond(ek, Stmt.n)
  /\ LET run == IF Stmt.name = "withTryCatch" THEN withTryCatch(arg)
                ELSE [value |-> withoutTryCatch(arg), caught |-> FALSE]
     IN /\ returned' = [returned EXCEPT ![Stmt.name] = @ \cup {run.value}]
        /\ acc' = IF run.caught
                  THEN [acc EXCEPT !["catches"] = Add(@, Num(1))]
                  ELSE acc
  /\ ek' = ek + 1
  /\ UNCHANGED <<example, epc, received, holey, arg, printed>>
  /\ UNCHANGED <<bvars, tvars>>

\* the loop condition is false: fall through to the next statement
ExampleLoopExit ==
  /\ ~ExampleDone
  /\ Stmt.op = "loop"
  /\ ~LoopCond(ek, Stmt.n)
  /\ epc' = epc + 1
  /\ ek' = 0
  /\ UNCHANGED <<example, acc, received, returned, holey, arg, printed>>
  /\ UNCHANGED <<bvars, tvars>>

ExampleNext ==
  \/ InlineCacheIteration
  \/ MonomorphicIteration
  \/ ArrayHolesPrint
  \/ PropertyRemovalIteration
  \/ PropertyDeletionIteration
  \/ DoubleVsTripleIteration
  \/ LooseVsStrictIteration
  \/ TryCatchIteration
  \/ ExampleLoopExit

ExampleSpec == ExampleInit /\ [][ExampleNext]_vars

(* ---------------------------------------------------------------------- *)
(* Reading the history                                                     *)
(* ---------------------------------------------------------------------- *)

Idx == 1..Len(log)

\* positions of the calls of fn in a given phase
CallsOf(fn, phase) ==
  {k \in Idx : log[k].kind = "call" /\ log[k].name = fn /\ log[k].phase = phase}

\* positions of all calls of fn
AllCallsOf(fn) == {k \in Idx : log[k].kind = "call" /\ log[k].name = fn}

\* position of the first event of a kind and name; 0 when there is none
FirstIdx(kind, name) ==
  IF \E k \in Idx : log[k].kind = kind /\ log[k].name = name
  THEN CHOOSE k \in Idx :
         /\ log[k].kind = kind /\ log[k].name = name
         /\ \A j \in 1..(k - 1) : ~(log[j].kind = kind /\ log[j].name = name)
  ELSE 0

\* position of the last mark of that name before position k; 0 when none
LastMarkBefore(name, k) ==
  IF \E j \in 1..(k - 1) : log[j].kind = "mark" /\ log[j].name = name
  THEN CHOOSE j \in 1..(k - 1) :
         /\ log[j].kind = "mark" /\ log[j].name = name
         /\ \A h \in (j + 1)..(k - 1) :
              ~(log[h].kind = "mark" /\ log[h].name = name)
  ELSE 0

\* position where the timer started at position k is stopped; one past the
\* end of the history while it is still running
TimerEnd(k) ==
  IF \E j \in (k + 1)..Len(log) :
       log[j].kind = "timeEnd" /\ log[j].name = log[k].name
  THEN CHOOSE j \in (k + 1)..Len(log) :
         /\ log[j].kind = "timeEnd" /\ log[j].name = log[k].name
         /\ \A h \in (k + 1)..(j - 1) :
              ~(log[h].kind = "timeEnd" /\ log[h].name = log[k].name)
  ELSE Len(log) + 1

\* the timed regions: console.time .. console.timeEnd, and for every
\* performance.measure the span from its start mark to its end mark
TimedRegions ==
  {<<k, TimerEnd(k)>> : k \in {j \in Idx : log[j].kind = "time"}}
  \cup
  {<<LastMarkBefore(log[k].from, k), LastMarkBefore(log[k].to, k)>> :
     k \in {j \in Idx : log[j].kind = "measure"}}

Started(label) == FirstIdx("time", label) # 0

Stopped(label) == FirstIdx("timeEnd", label) # 0

\* the benchmark blocks of pres-demo.ts section 1: timer label, function
PresDemoBlocks ==
  {<<"Stable function", "addStable">>, <<"Unstable function", "addUnstable">>}

(* ---------------------------------------------------------------------- *)
(* C1                                                                      *)
(* ---------------------------------------------------------------------- *)

BlockOrder(label, fn, w) ==
  LET s == FirstIdx("time", label)
      e == FirstIdx("timeEnd", label)
  IN  /\ Started(label) =>
           /\ Cardinality({k \in AllCallsOf(fn) : k < s}) = w
           /\ \A k \in CallsOf(fn, "warmup") : k < s
           /\ \A k \in CallsOf(fn, "measure") : s < k
      /\ ~Started(label) => CallsOf(fn, "measure") = {}
      /\ Stopped(label) =>
           /\ s < e
           /\ Cardinality({k \in AllCallsOf(fn) : s < k /\ k < e}) = ITERATIONS
           /\ \A k \in AllCallsOf(fn) : k < e

C3_WarmupBeforeEveryTimedRegion ==
  \A r \in TimedRegions :
    \A k \in (r[1] + 1)..(r[2] - 1) :
      log[k].kind = "call" =>
        /\ log[k].phase # "warmup"
        /\ \E j \in 1..(r[1] - 1) :
             /\ log[j].kind = "call"
             /\ log[j].name = log[k].name
             /\ log[j].phase = "warmup"

(* ---------------------------------------------------------------------- *)
(* C14                                                                     *)
(* ---------------------------------------------------------------------- *)

\* the statements executed so far that produce a timing result
ResultEvents ==
  LET Produces(ev) == ev.kind \in {"timeEnd", "measure"}
  IN  SelectSeq(log, Produces)

\* C14: with a clock that never decreases, every timing result a script
\* produces (the line of console.timeEnd, the entry of performance.measure)
\* has an elapsed time >= 0 and carries the name given in the statement
\* that produced it, one result per such statement, in program order.
C14_ElapsedNonNegativeAndNamed ==
  /\ Len(reports) = Len(ResultEvents)
  /\ \A k \in 1..Len(reports) :
       /\ reports[k].elapsed >= 0
       /\ reports[k].name = ResultEvents[k].name

\* a console.timeEnd result with a positive elapsed time has been produced
\* after the clock moved during the timed loop
C14_Witness ==
  /\ script = "optimization"
  /\ Len(reports) >= 2
  /\ reports[1].elapsed > 0
  /\ reports[2].name = "Polymorphic (mixed types)"
  /\ now = MaxClock

(* ---------------------------------------------------------------------- *)
(* C15                                                                     *)
(* ---------------------------------------------------------------------- *)

\* s is an initial part of t
IsPrefix(s, t) ==
  /\ Len(s) <= Len(t)
  /\ \A k \in 1..Len(s) : s[k] = t[k]

\* the statements that make up a benchmark: warm-up and measured loops,
\* timer start and stop, marks and measures (everything but console.log)
BenchmarkStatement == ~Done /\ Instr.op # "print"

CallIdx == {k \in Idx : log[k].kind = "call"}

\* the functions called strictly inside a timed region
CalledIn(r) == {log[k].name : k \in {j \in CallIdx : r[1] < j /\ j < r[2]}}

\* benchmarks run one after another: the calls of two functions never
\* alternate, at most one console timer runs at a time, timed regions do
\* not overlap, and a single function executes inside a timed region
NeverInterleave ==
  /\ \A j, k, l \in CallIdx :
       (j < k /\ k < l /\ log[j].name = log[l].name) =>
         log[k].name = log[j].name
  /\ Cardinality(DOMAIN timers) <= 1
  /\ \A r1, r2 \in TimedRegions :
       r1 # r2 => (r1[2] <= r2[1] \/ r2[2] <= r1[1])
  /\ \A r \in TimedRegions : Cardinality(CalledIn(r)) <= 1

\* the second benchmark of pres-demo.ts has begun
SecondBlockBegun ==
  script = "pres-demo" /\ AllCallsOf("addUnstable") # {}

\* in pres-demo.ts, once the second benchmark has begun, the first one is
\* over: cnt invocations of addStable and both reads of its timer precede
\* every invocation of addUnstable and every read of its timer
FirstBlockBeforeSecond(cnt) ==
  SecondBlockBegun =>
    LET first == CHOOSE k \in AllCallsOf("addUnstable") :
                   \A h \in AllCallsOf("addUnstable") : k <= h
    IN  /\ Cardinality(AllCallsOf("addStable")) = cnt
        /\ \A k \in AllCallsOf("addStable") : k < first
        /\ Started("Stable function") /\ Stopped("Stable function")
        /\ FirstIdx("time", "Stable function") < first
        /\ FirstIdx("timeEnd", "Stable function") < first
        /\ Started("Unstable function") =>
             FirstIdx("timeEnd", "Stable function")
               < FirstIdx("time", "Unstable function")

ExpectedResults(s) ==
  Cardinality({k \in 1..Len(Program(s)) :
                 Program(s)[k].op \in {"timeEnd", "measure"}})

\* the script is over and every timing result has been produced
Finished == Done /\ Len(reports) = ExpectedResults(script)

RECURSIVE CallsUpTo(_, _)
\* the invocations made by the first k statements of a script when each
\* loop runs all of its iterations
CallsUpTo(s, k) ==
  IF k = 0 THEN 0
  ELSE CallsUpTo(s, k - 1)
       + (IF Program(s)[k].op \in {"loop", "call"} THEN Program(s)[k].n ELSE 0)

\* no loop is cut short: every statement before the current one has made
\* all of its invocations, so a timer is only stopped (and a result only
\* produced) after every invocation of its measured loop has returned
NoLoopCutShort ==
  Cardinality(CallIdx) =
    CallsUpTo(script, pc - 1) + (IF ~Done /\ Instr.op = "loop" THEN i ELSE 0)

NoExampleGiven == Len(argv) = Len(NodeAndScript)

\* position of the first occurrence of an event in the launcher's history;
\* 0 when it has not happened
Pos(ev) ==
  IF \E k \in 1..Len(launcher.events) : launcher.events[k] = ev
  THEN CHOOSE k \in 1..Len(launcher.events) :
         /\ launcher.events[k] = ev
         /\ \A j \in 1..(k - 1) : launcher.events[j] # ev
  ELSE 0

\* how often an event has happened
Count(ev) ==
  Cardinality({k \in 1..Len(launcher.events) : launcher.events[k] = ev})

\* C18: started with no example argument, the trace launcher prints the
\* usage text and exits with status 1 without ever spawning a child.
C18_NoArgumentUsageAndExit1 ==
  NoExampleGiven =>
    /\ launcher.spawns = 0
    /\ child.state = "none"
    /\ Pos("spawn") = 0
    /\ launcher.pc \in {"start", "exited"}
    /\ launcher.pc = "exited" =>
         /\ launcher.status = <<1>>
         /\ launcher.events = <<"usage", "exit">>
         /\ Len(launcher.out) > 0
         /\ launcher.out[1] = "Usage: node dist/trace.js <example-file>"

\* the launcher has exited after being started with no example argument
C18_Witness ==
  /\ NoExampleGiven
  /\ launcher.pc = "exited"
  /\ Pos("usage") = 1

(* ---------------------------------------------------------------------- *)
(* C19                                                                     *)
(* ---------------------------------------------------------------------- *)

\* the example argument the launcher was given
ExampleFile == Args(argv)[1]

\* the file the spawned node opens: the child inherits the launcher's
\* working directory
FileRun == Resolve(cwd, launcher.filePath)

\* C19: the bare file name and the examples/ prefixed form of an example
\* both make the launcher run that file in the examples directory next to
\* the compiled trace script.
C19_BothFormsRunSameFile ==
  (launcher.spawns > 0 /\ ExampleFile.sep = "/") =>
    LET f == ExampleFile.segs[Len(ExampleFile.segs)]
    IN  ExampleFile.segs \in {<<f>>, <<"examples", f>>} =>
          FileRun = Dirname \o <<"examples", f>>

(* ---------------------------------------------------------------------- *)
(* C20                                                                     *)
(* ---------------------------------------------------------------------- *)

\* C20: started with an example, the launcher spawns the child exactly
\* once, after printing the Running header; it ends through exactly one of
\* two paths: the 'error' event (exit status 1, footer never printed) or
\* the 'close' event (footer printed, then exit); the footer is never
\* printed before the child has closed, and nothing happens after exit.
C20_ErrorOrCloseExactlyOnce ==
  ~NoExampleGiven =>
    /\ launcher.spawns <= 1
    /\ Count("spawn") = launcher.spawns
    /\ launcher.pc # "start" => launcher.spawns = 1
    /\ Pos("spawn") # 0 =>
         (0 < Pos("running") /\ Pos("running") < Pos("spawn"))
    /\ Pos("footer") # 0 =>
         /\ child.state = "closed"
         /\ Pos("spawn") < Pos("close")
         /\ Pos("close") < Pos("footer")
    /\ launcher.pc = "exited" =>
         /\ Count("exit") = 1
         /\ launcher.events[Len(launcher.events)] = "exit"
         /\ Count("error") + Count("close") = 1
         /\ Count("error") = 1 =>
              /\ launcher.status = <<1>>
              /\ Pos("footer") = 0
              /\ \A k \in 1..Len(launcher.out) :
                   launcher.out[k] # "Trace Complete"
         /\ Count("close") = 1 =>
              /\ Count("footer") = 1
              /\ Pos("footer") < Pos("exit")
    /\ launcher.pc # "exited" => (Pos("footer") = 0 /\ Pos("exit") = 0)

\* the launcher has exited through the 'close' event after the child wrote
\* its trace
C20_Witness ==
  /\ ~NoExampleGiven
  /\ launcher.pc = "exited"
  /\ Pos("footer") # 0
  /\ child.lines = MaxChildLines

(* ---------------------------------------------------------------------- *)
(* C21                                                                     *)
(* ---------------------------------------------------------------------- *)

\* the launcher has exited from its 'close' handler
ExitedOnClose == launcher.pc = "exited" /\ Count("close") = 1

\* C21: when the child closes, the launcher exits with the child's exit
\* code, so a failing example makes the launcher fail with the same
\* non-zero status; when the child reports no exit code (null, ended by a
\* signal) the launcher exits with status 0.
C21_ExitsWithChildCode ==
  ExitedOnClose =>
    /\ child.code # << >> => launcher.status = child.code
    /\ child.code = << >> => launcher.status = <<0>>

\* the launcher has exited after a failing example closed with code 2
C21_Witness ==
  /\ ExitedOnClose
  /\ child.code = <<MaxExitCode>>
  /\ launcher.status = <<MaxExitCode>>

(* ---------------------------------------------------------------------- *)
(* C22                                                                     *)
(* ---------------------------------------------------------------------- *)

\* the classes of the array elements fn has been called with
ClassesReceived(fn) == {Deref(r).class : r \in received[fn]}

\* the measured loop of fn has run to its end
MeasuredLoopOver(fn) ==
  \E p \in 1..Len(ExampleProgram(example)) :
    /\ ExampleProgram(example)[p].name = fn
    /\ ExampleProgram(example)[p].phase = "measure"
    /\ epc > p

\* C22: in the inline-cache benchmark of the presentation demo each function
\* is called, in warm-up and measurement alike, only with elements of its
\* own array, and the receiver classes it sees are those of its label:
\* getAnimalInfo only Dog, getAnimalInfoPoly exactly 4 classes and
\* getAnimalInfoMega exactly 6 classes once its measured loop is over (and
\* never more before).
C22_ReceiverClassesMatchLabel ==
  example = "inline-cache-states" =>
    /\ \A r \in received["getAnimalInfo"] : r.array = "dogs"
    /\ \A r \in received["getAnimalInfoPoly"] : r.array = "mixedAnimals"
    /\ \A r \in received["getAnimalInfoMega"] : r.array = "manyAnimals"
    /\ ClassesReceived("getAnimalInfo") \subseteq {"Dog"}
    /\ Cardinality(ClassesReceived("getAnimalInfoPoly")) <= 4
    /\ Cardinality(ClassesReceived("getAnimalInfoMega")) <= 6
    /\ MeasuredLoopOver("getAnimalInfo") =>
         ClassesReceived("getAnimalInfo") = {"Dog"}
    /\ MeasuredLoopOver("getAnimalInfoPoly") =>
         Cardinality(ClassesReceived("getAnimalInfoPoly")) = 4
    /\ MeasuredLoopOver("getAnimalInfoMega") =>
         Cardinality(ClassesReceived("getAnimalInfoMega")) = 6

\* the three tests are over and the megamorphic one has seen six classes
C22_Witness ==
  /\ example = "inline-cache-states"
  /\ ExampleDone
  /\ ClassesReceived("getAnimalInfoMega") =
       {"Dog", "Cat", "Bird", "Horse", "Cow", "Sheep"}
  /\ acc["megaIC"] # Num(0)

(* ---------------------------------------------------------------------- *)
(* C23                                                                     *)
(* ---------------------------------------------------------------------- *)

\* the shapes of the objects fn has been called with
ShapesReceived(fn) == {Shape(o) : o \in received[fn]}

\* C23: in monomorphic.ts the number of distinct object shapes passed to
\* each measured function matches the inline-cache class of its label: once
\* its loop is over processMonomorphic has seen exactly 1 shape,
\* processPolymorphic between 2 and 4 shapes, processMegamorphic 5 or more;
\* and the first two never see more than that.
C23_ShapeCountMatchesLabel ==
  example = "monomorphic" =>
    /\ Cardinality(ShapesReceived("processMonomorphic")) <= 1
    /\ Cardinality(ShapesReceived("processPolymorphic")) <= 4
    /\ MeasuredLoopOver("processMonomorphic") =>
         Cardinality(ShapesReceived("processMonomorphic")) = 1
    /\ MeasuredLoopOver("processPolymorphic") =>
         Cardinality(ShapesReceived("processPolymorphic")) \in 2..4
    /\ MeasuredLoopOver("processMegamorphic") =>
         Cardinality(ShapesReceived("processMegamorphic")) >= 5

\* the three loops are over: one shape, four shapes (property order counts:
\* objC has other before value), five shapes
C23_Witness ==
  /\ example = "monomorphic"
  /\ ExampleDone
  /\ ShapesReceived("processMonomorphic") = {<<"value">>}
  /\ <<"other", "value">> \in ShapesReceived("processPolymorphic")
  /\ Cardinality(ShapesReceived("processPolymorphic")) = 4
  /\ Cardinality(ShapesReceived("processMegamorphic")) = 5
  /\ returned["processPolymorphic"] = {Num(20), Num(40), Num(60), Num(80)}

(* ---------------------------------------------------------------------- *)
(* C24                                                                     *)
(* ---------------------------------------------------------------------- *)

\* the sum of the elements present in arr
RECURSIVE SumPresent(_)
SumPresent(arr) ==
  IF arr = << >> THEN 0
  ELSE (IF arr[1].t = "hole" THEN 0 ELSE arr[1].v[1]) + SumPresent(Tail(arr))

\* C24: sumArrayOptimized(arr) returns the sum of the elements present in
\* arr, for the packed array and for an array created with new Array(5) in
\* which an index is never assigned alike: an unset index contributes
\* nothing to the printed 'Holey array sum'.
C24_SumOfElementsPresent ==
  \A p \in 1..Len(printed) :
    printed[p].value = Num(SumPresent(ArrayNamed(printed[p].of)))

(* ---------------------------------------------------------------------- *)
(* C25                                                                     *)
(* ---------------------------------------------------------------------- *)

\* C25: the compared property-removal variants compute the same value:
\* processWithDelete, processWithUndefined and processWithNull return one
\* and the same sum on every call, so deleteSum = undefinedSum = nullSum
\* after the three benchmarks; and the 'With deletions' and 'With null
\* values' benchmarks of the comprehensive demo end with
\* deletedSum = nullSum.
C25_RemovalVariantsSameSum ==
  /\ example = "property-removal" =>
       /\ Cardinality(returned["processWithDelete"]
                      \cup returned["processWithUndefined"]
                      \cup returned["processWithNull"]) <= 1
       /\ ExampleDone =>
            /\ acc["deleteSum"] = acc["undefinedSum"]
            /\ acc["undefinedSum"] = acc["nullSum"]
  /\ example = "property-deletion" /\ ExampleDone =>
       acc["deletedSum"] = acc["nullSum"]

\* the three benchmarks of the presentation demo are over and every
\* variant has returned the sum of the prices, a number other than 0
C25_Witness ==
  /\ example = "property-removal"
  /\ ExampleDone
  /\ returned["processWithDelete"] = {processWithNull}
  /\ IsNumber(acc["deleteSum"])
  /\ acc["deleteSum"] # Num(0)
  /\ acc["nullSum"] = acc["deleteSum"]

(* ---------------------------------------------------------------------- *)
(* C26                                                                     *)
(* ---------------------------------------------------------------------- *)

\* no element of the array equals v under == without equalling it under ===
NoLooseOnlyMatch(array, v) ==
  \A p \in 1..Len(array) :
    LooseEquals(At(array, p - 1), v) => StrictEquals(At(array, p - 1), v)

\* C26: in both equality benchmarks the loose (==) loop and the strict
\* (===) loop count the same number of matches over the same data, no
\* element of the test data matching under == without also matching under
\* ===: tripleCount = doubleCount in the presentation demo and
\* looseCount = strictCount in the comprehensive demo.
C26_LooseAndStrictCountSame ==
  /\ example = "double-vs-triple-equals" =>
       /\ \A p \in 1..Len(Targets) : NoLooseOnlyMatch(testValues, Targets[p])
       /\ ExampleDone => acc["tripleCount"] = acc["doubleCount"]
  /\ example = "loose-vs-strict-equality" =>
       /\ NoLooseOnlyMatch(mixedArray, Num(0))
       /\ ExampleDone => acc["looseCount"] = acc["strictCount"]

\* both loops of the comprehensive demo are over, they have compared a
\* number, a string, null and undefined with 0, and both have counted
C26_Witness ==
  /\ example = "loose-vs-strict-equality"
  /\ ExampleDone
  /\ {mixedArray[p].t : p \in 1..Len(mixedArray)} =
       {"number", "string", "null", "undefined"}
  /\ acc["looseCount"] # Num(0)
  /\ acc["strictCount"] = acc["looseCount"]

(* ---------------------------------------------------------------------- *)
(* C27                                                                     *)
(* ---------------------------------------------------------------------- *)

CountBefore(kind, name, p) ==
  Cardinality({j \in 1..(p - 1) : log[j].kind = kind /\ log[j].name = name})

\* how many console timers are running before position p
RunningBefore(p) ==
  Cardinality({j \in 1..(p - 1) : log[j].kind = "time"})
  - Cardinality({j \in 1..(p - 1) : log[j].kind = "timeEnd"})

\* C28: timed regions in the scripts are well-bracketed: every
\* console.time(label) is followed by a console.timeEnd with the same label
\* before any other timer is started (timers never nest or overlap, no
\* console.timeEnd names a label that is not running, and none is left
\* running when the script ends), and every performance.measure names a
\* start mark and an end mark that were both recorded earlier, the start
\* mark before the end mark.
C28_TimedRegionsWellBracketed ==
  /\ \A p \in Idx :
       /\ log[p].kind = "time" => RunningBefore(p) = 0
       /\ log[p].kind = "timeEnd" =>
            /\ RunningBefore(p) = 1
            /\ CountBefore("time", log[p].name, p)
                 = CountBefore("timeEnd", log[p].name, p) + 1
       /\ log[p].kind = "measure" =>
            /\ LastMarkBefore(log[p].from, p) > 0
            /\ LastMarkBefore(log[p].to, p) > LastMarkBefore(log[p].from, p)
  /\ Done => timers = << >>

\* the comprehensive demo has run both of its timers to their end, one
\* after the other
C28_Witness ==
  /\ script = "comprehensive"
  /\ Done
  /\ timers = << >>
  /\ Len(reports) = 2
  /\ FirstIdx("timeEnd", "Optimized (numbers only)")
       < FirstIdx("time", "Deoptimized (mixed types)")

====
